---------------------------- MODULE Spec2Model ----------------------------
(***************************************************************************)
(* The bullpen recommendation pipeline (src/bullpen): the memoized data    *)
(* provider (data.py), the scorer and ranker (scoring.py), the explanation *)
(* collaborator (llm.py) and the four-node LangGraph workflow (agents.py), *)
(* together with the /refresh-data endpoint (service.py).                  *)
(*                                                                         *)
(* Strings that the code inspects (names, exclusion entries, explanation   *)
(* text) are sequences of one-character strings.  Floats are scaled        *)
(* integers: era and whip in hundredths, k9 and bb9 in tenths, wOBA in     *)
(* thousandths, scores in ten-thousandths.                                 *)
(***************************************************************************)
EXTENDS Integers, Sequences, FiniteSets, TLC

(* ------------------------------ bounds -------------------------------- *)

\* Longest file / Statcast frame, in rows.
MaxRows == 2

(* ------------------------------ strings ------------------------------- *)

\* str.lower() on one character.
LowerChar(c) ==
    CASE c = "A" -> "a"
      [] c = "B" -> "b"
      [] c = "L" -> "l"
      [] c = "R" -> "r"
      [] OTHER -> c

\* str.upper() on one character.
UpperChar(c) ==
    CASE c = "a" -> "A"
      [] c = "b" -> "B"
      [] c = "l" -> "L"
      [] c = "r" -> "R"
      [] OTHER -> c

\* A comparison that keeps the case.
LowerKeepCase(s) == s

\* str.lower()
Lower(s) == [i \in 1..Len(s) |-> LowerChar(s[i])]

Upper(s) == [i \in 1..Len(s) |-> UpperChar(s[i])]

RECURSIVE LStrip(_)
LStrip(s) == IF s # <<>> /\ Head(s) = " " THEN LStrip(Tail(s)) ELSE s

RECURSIVE RStrip(_)
RStrip(s) ==
    IF s # <<>> /\ s[Len(s)] = " " THEN RStrip(SubSeq(s, 1, Len(s) - 1)) ELSE s

\* str.strip()
Strip(s) == RStrip(LStrip(s))

\* Python's  needle in hay  on strings.
Contains(hay, needle) ==
    \E i \in 0..(Len(hay) - Len(needle)) :
        SubSeq(hay, i + 1, i + Len(needle)) = needle

(* --------------------------- candidate rows --------------------------- *)

\* The CSV rows the model draws file and frame contents from.
RowAb ==
    [name |-> <<"A", "b">>, throws |-> <<" ", "l">>, era |-> 350, whip |-> 130,
     k9 |-> 90, bb9 |-> 30, vsL |-> 300, vsR |-> 450, days_rest |-> 0]

RowBa ==
    [name |-> <<"B", "a">>, throws |-> <<"R">>, era |-> 700, whip |-> 130,
     k9 |-> 120, bb9 |-> 20, vsL |-> 450, vsR |-> 225, days_rest |-> 2]

RowAa ==
    [name |-> <<"A", "a">>, throws |-> <<"L">>, era |-> 175, whip |-> 260,
     k9 |-> 60, bb9 |-> 40, vsL |-> 225, vsR |-> 300, days_rest |-> 1]

\* RowAb with a blank after the name in its cell; csv.DictReader keeps it.
RowAbPad == [RowAb EXCEPT !.name = <<"A", "b", " ">>]

\* Another pitcher with RowBa's numbers.
RowBb == [RowBa EXCEPT !.name = <<"B", "b">>]

\* The rows of hand-made files.
CsvRows == {RowAb, RowBa}

\* The rows summarize_relievers can produce: upper-cased handedness, and
\* fetch_reliever_frame keeps only a positive era.
StatcastRows == {RowBa, RowAa}

\* Reliever.from_row: the handedness is stripped and upper-cased, the other
\* columns are parsed as they stand.
from_row(row) == [row EXCEPT !.throws = Upper(Strip(row.throws))]

Relievers == {from_row(r) : r \in CsvRows \cup StatcastRows}

(* ------------------------------- scorer ------------------------------- *)

Min2(a, b) == IF a < b THEN a ELSE b

Max2(a, b) == IF a > b THEN a ELSE b

\* Weights whose high-leverage adjustment raises platoon and whip and leaves
\* kbb as it was.
WeightsKbbKept(leverage) ==
    LET base == [era |-> 30, whip |-> 25, kbb |-> 20, platoon |-> 20, rest |-> 5]
    IN  IF leverage = "high"
        THEN [base EXCEPT !.platoon = @ + 5, !.whip = @ + 5]
        ELSE IF leverage = "low"
             THEN [base EXCEPT !.platoon = @ - 5, !.kbb = @ + 5]
             ELSE base

\* The weights, in hundredths, after the leverage adjustment.
Weights(leverage) ==
    LET base == [era |-> 30, whip |-> 25, kbb |-> 20, platoon |-> 20, rest |-> 5]
    IN  IF leverage = "high"
        THEN [base EXCEPT !.platoon = @ + 5, !.whip = @ + 5, !.kbb = @ - 5]
        ELSE IF leverage = "low"
             THEN [base EXCEPT !.platoon = @ - 5, !.kbb = @ + 5]
             ELSE base

\* The platoon advantage taken from the split of the other side.
PlatoonNumOtherSide(reliever, batter) ==
    LET woba == IF batter = "L" THEN reliever.vsR ELSE reliever.vsL
    IN  IF 450 - woba < 0 THEN 0 ELSE IF 450 - woba > 450 THEN 450
        ELSE 450 - woba

\* _platoon_advantage as the fraction num/450: (0.450 - woba)/0.450 clamped.
PlatoonNum(reliever, batter) ==
    LET woba == IF batter = "L" THEN reliever.vsL ELSE reliever.vsR
    IN  Max2(0, Min2(450, 450 - woba))

\* round(x, 4) of the exact rational x = n/d (d > 0), in ten-thousandths,
\* halves to even.
RoundDiv(n, d) ==
    LET q == n \div d
        r == n % d
    IN  IF 2 * r < d THEN q
        ELSE IF 2 * r > d THEN q + 1
        ELSE IF q % 2 = 0 THEN q ELSE q + 1

RECURSIVE GCD(_, _)
GCD(a, b) == IF b = 0 THEN a ELSE GCD(b, a % b)

\* score_reliever, in ten-thousandths.  The era and whip terms are the
\* fractions min(e, 350)/e and min(w, 130)/w in lowest terms.  Each weighted
\* term is a fraction whose integer part is summed apart; the fractional
\* parts are added over the common denominator e * w * 450.
score_reliever(reliever, batter, leverage) ==
    LET wt == Weights(leverage)
        era == Max2(1, reliever.era)
        whip == Max2(1, reliever.whip)
        e == era \div GCD(era, Min2(era, 350))
        w == whip \div GCD(whip, Min2(whip, 130))
        eraN == wt.era * 100 * (Min2(era, 350) \div GCD(era, Min2(era, 350)))
        whipN == wt.whip * 100
                   * (Min2(whip, 130) \div GCD(whip, Min2(whip, 130)))
        kbbN == wt.kbb * 100 * 3
                  * Max2(0, Min2(150, reliever.k9 - reliever.bb9 + 50))
        platN == wt.platoon * 100 * PlatoonNum(reliever, batter)
        restI == IF reliever.days_rest >= 1 THEN 0 ELSE 0 - wt.rest * 50
        whole == (eraN \div e) + (whipN \div w) + ((kbbN + platN) \div 450)
                   + restI
        fracN == (eraN % e) * w * 450 + (whipN % w) * e * 450
                   + ((kbbN + platN) % 450) * e * w
    IN  whole + RoundDiv(fracN, e * w * 450)

(* ------------------------------- ranker ------------------------------- *)

\* An insertion that puts a pair ahead of the pairs of equal score.
RECURSIVE InsertDescAhead(_, _)
InsertDescAhead(pair, sorted) ==
    IF sorted = <<>> THEN <<pair>>
    ELSE IF Head(sorted)[2] > pair[2]
         THEN <<Head(sorted)>> \o InsertDescAhead(pair, Tail(sorted))
         ELSE <<pair>> \o sorted

\* list.sort(key=score, reverse=True): a stable sort, descending by score.
RECURSIVE InsertDesc(_, _)
InsertDesc(pair, sorted) ==
    IF sorted = <<>> THEN <<pair>>
    ELSE IF Head(sorted)[2] >= pair[2]
         THEN <<Head(sorted)>> \o InsertDesc(pair, Tail(sorted))
         ELSE <<pair>> \o sorted

RECURSIVE SortDesc(_)
SortDesc(pairs) ==
    IF pairs = <<>> THEN <<>>
    ELSE InsertDesc(pairs[Len(pairs)], SortDesc(SubSeq(pairs, 1, Len(pairs) - 1)))

RECURSIVE FilterExcluded(_, _)
FilterExcluded(relievers, excluded) ==
    IF relievers = <<>> THEN <<>>
    ELSE (IF Lower(Head(relievers).name) \in excluded
          THEN <<>> ELSE <<Head(relievers)>>)
         \o FilterExcluded(Tail(relievers), excluded)

\* rank_relievers; the second component (top_pairs) is what the workflow keeps.
rank_relievers(relievers, batter, leverage, exclude) ==
    LET excluded == {Lower(Strip(exclude[i])) : i \in 1..Len(exclude)}
        candidates == FilterExcluded(relievers, excluded)
        scored == SortDesc([i \in 1..Len(candidates) |->
                     <<candidates[i],
                       score_reliever(candidates[i], batter, leverage)>>])
        top_pairs == SubSeq(scored, 1, Min2(3, Len(scored)))
    IN  <<[i \in 1..Len(top_pairs) |-> top_pairs[i][1]], top_pairs>>

(* ------------------------------- files -------------------------------- *)

\* settings.data_path and the bundled sample_data/relievers_2024.csv.
Paths == {"data", "sample"}

Absent == [exists |-> FALSE, rows |-> <<>>]

File(rows) == [exists |-> TRUE, rows |-> rows]

RowSeqs(S) == UNION {[1..n -> S] : n \in 0..MaxRows}

Files == {Absent} \cup {File(rows) : rows \in RowSeqs(CsvRows)}

SampleFiles == {Absent, File(<<>>), File(<<RowAb, RowBa>>)}

\* df.sort_values(by=["era", "whip"]) on the filtered relievers.
SortedByEraWhip(rows) ==
    \A i \in 1..(Len(rows) - 1) :
        \/ rows[i].era < rows[i + 1].era
        \/ rows[i].era = rows[i + 1].era /\ rows[i].whip <= rows[i + 1].whip

\* fetch_reliever_frame without its  if not filtered: raise .
FramesMaybeEmpty ==
    {f \in RowSeqs(StatcastRows) :
        /\ \A i, j \in 1..Len(f) : i # j => f[i] # f[j]
        /\ SortedByEraWhip(f)}

\* The frames fetch_reliever_frame can return: not empty, one row per
\* pitcher, sorted.
Frames ==
    {f \in RowSeqs(StatcastRows) :
        /\ f # <<>>
        /\ \A i, j \in 1..Len(f) : i # j => f[i] # f[j]
        /\ SortedByEraWhip(f)}

(* ---------------------------- data provider --------------------------- *)

\* The read loop returning whatever the first file that exists holds, no
\* rows included.
RECURSIVE load_from_existing(_, _)
load_from_existing(candidates, dsk) ==
    IF candidates = <<>>
    THEN [ok |-> FALSE, pool |-> <<>>, src |-> "none"]
    ELSE LET path == Head(candidates)
             relievers == [i \in 1..Len(dsk[path].rows) |->
                              from_row(dsk[path].rows[i])]
         IN  IF dsk[path].exists
             THEN [ok |-> TRUE, pool |-> relievers, src |-> path]
             ELSE load_from_existing(Tail(candidates), dsk)

\* The read loop returning after the first row of a file.
RECURSIVE load_from_first_row(_, _)
load_from_first_row(candidates, dsk) ==
    IF candidates = <<>>
    THEN [ok |-> FALSE, pool |-> <<>>, src |-> "none"]
    ELSE LET path == Head(candidates)
             relievers == [i \in 1..Min2(1, Len(dsk[path].rows)) |->
                              from_row(dsk[path].rows[i])]
         IN  IF dsk[path].exists /\ relievers # <<>>
             THEN [ok |-> TRUE, pool |-> relievers, src |-> path]
             ELSE load_from_first_row(Tail(candidates), dsk)

\* The body of load_relievers: the given path first, then the sample path.
RECURSIVE load_from(_, _)
load_from(candidates, dsk) ==
    IF candidates = <<>>
    THEN [ok |-> FALSE, pool |-> <<>>, src |-> "none"]
    ELSE LET path == Head(candidates)
             relievers == [i \in 1..Len(dsk[path].rows) |->
                              from_row(dsk[path].rows[i])]
         IN  IF dsk[path].exists /\ relievers # <<>>
             THEN [ok |-> TRUE, pool |-> relievers, src |-> path]
             ELSE load_from(Tail(candidates), dsk)

\* load_relievers without the sample path among its candidates.
load_relievers_primary_only(data_path, dsk) == load_from(<<data_path>>, dsk)

load_relievers_body(data_path, dsk) ==
    LET candidates == IF data_path = "sample" THEN <<data_path>>
                      ELSE <<data_path, "sample">>
    IN  load_from(candidates, dsk)

\* A lookup that never finds the entry.
CacheHitNever(c, data_path) == FALSE

\* functools.lru_cache(maxsize=1): the lookup.
CacheHit(c, data_path) == c # <<>> /\ c[1].key = data_path

\* A cache that stores nothing.
CacheStoreNothing(c, data_path, pool) == c

\* lru_cache's store of a returned value: one slot, the latest key wins.
CacheStore(c, data_path, pool) == <<[key |-> data_path, value |-> pool]>>

\* load_relievers.cache_clear()
CacheClear(c) == <<>>

(* --------------------------- explanation call ------------------------- *)

\* An optional value: <<>> is None, <<v>> is the value v.
None == <<>>

Some(v) == <<v>>

\* What response.choices[0].message.content can be.
LlmMessages ==
    {None, Some(<<>>), Some(<<" ">>), Some(<<" ", "a", "B">>),
     Some(<<"b", "b">>)}

\* generate_explanation's last line:  message.strip() if message else None.
explanation_of(message) ==
    IF message # None /\ message[1] # <<>> THEN Some(Strip(message[1]))
    ELSE None

(* ------------------------------ workflow ------------------------------ *)

\* build_recommendation_graph: the entry point and the edges.
EntryPoint == "load_data"

\* The graph with an edge from explain back to score.
NextNodeBack(node) ==
    CASE node = "load_data" -> "score"
      [] node = "score" -> "explain"
      [] node = "explain" -> "score"
      [] node = "critic" -> "END"

NextNode(node) ==
    CASE node = "load_data" -> "score"
      [] node = "score" -> "explain"
      [] node = "explain" -> "critic"
      [] node = "critic" -> "END"

Note(text, n) == [text |-> text, n |-> n]

\* The requests the model runs the workflow on.
Contexts ==
    {[batter |-> "L", leverage |-> "medium", exclude |-> <<>>],
     [batter |-> "R", leverage |-> "high", exclude |-> <<<<" ", "a", "B", " ">>>>],
     [batter |-> "L", leverage |-> "low",
      exclude |-> <<<<"A", "b">>, <<"b", "a">>, <<"a", "a">>>>]}

VARIABLES
    disk,      \* the file at each path
    cache,     \* load_relievers' lru_cache: at most one entry
    key,       \* settings.openai_api_key is set
    pc,        \* where the workflow invocation stands
    state,     \* its RecommendationState; state.keys are the keys present
    notes,     \* the node's local  notes  list while the node runs
    pending,   \* a pool load_relievers has read and lru_cache has not stored
    frame,     \* the frame refresh_relievers_csv has fetched for the workflow
    err,       \* the exception that left the invocation, "none" if none
    rpc,       \* where the /refresh-data request stands
    rframe,    \* the frame it has fetched
    hist,      \* history of the invocation: nodes run, calls made
    last,      \* the latest direct load_relievers call and its outcome
    reads,     \* per path, pools direct calls have read since cache_clear
    fcall      \* a direct rank_relievers / score_reliever call and its result

vars == <<disk, cache, key, pc, state, notes, pending, frame, err, rpc, rframe,
          hist, last, reads, fcall>>

NoHist ==
    [nodes |-> <<>>, loads |-> 0, refreshes |-> 0, fetch |-> "none",
     written |-> <<>>, llm |-> <<>>]

NoState ==
    [keys |-> {}, request |-> [batter |-> "L", leverage |-> "low",
                               exclude |-> <<>>],
     relievers |-> <<>>, scored |-> <<>>, explanation |-> None, notes |-> <<>>]

\* No load_relievers call yet.
NoLoad ==
    [path |-> "none", hit |-> FALSE, ok |-> FALSE, pool |-> <<>>,
     src |-> "none", primary |-> FALSE, sample |-> FALSE]

\* No direct call of the ranker or the scorer.
NoCall == [op |-> "none", args |-> <<>>, done |-> FALSE, out |-> <<>>]

Init ==
    /\ disk \in {d \in [Paths -> Files] : d["sample"] \in SampleFiles}
    /\ cache = <<>>
    /\ key \in BOOLEAN
    /\ pc = "idle"
    /\ state = NoState
    /\ notes = <<>>
    /\ pending = <<>>
    /\ frame = <<>>
    /\ err = "none"
    /\ rpc = "idle"
    /\ rframe = <<>>
    /\ hist = NoHist
    /\ last = NoLoad
    /\ reads = [p \in Paths |-> 0]
    /\ fcall = NoCall

\* state.get(k, default)
Get(st, k, default) == IF k \in st.keys THEN st[k] ELSE default

\* {**state, k: v}
With(st, k, v) == [st EXCEPT !.keys = @ \cup {k}, ![k] = v]

\* run_multi_agent_recommendation: the initial state enters the graph.
Invoke(context) ==
    /\ pc = "idle"
    /\ pc' = EntryPoint
    /\ state' = With(With(NoState, "request", context), "notes", <<>>)
    /\ UNCHANGED <<disk, cache, key, fcall, notes, pending, frame, err, rpc, rframe,
                   hist, last, reads>>

\* graph.invoke has returned the final state or raised; the caller is done
\* with it.
Return ==
    /\ pc \in {"END", "raised"}
    /\ pc' = "idle"
    /\ state' = NoState
    /\ err' = "none"
    /\ hist' = NoHist
    /\ notes' = <<>>
    /\ pending' = <<>>
    /\ frame' = <<>>
    /\ UNCHANGED <<disk, cache, key, fcall, rpc, rframe, last, reads>>

\* A call load_relievers(data_path) up to the return of its body: the lookup
\* and, on a miss, the read of the files.  primary and sample record whether
\* the file at data_path and the sample file held a record when the call was
\* made.
LoadCall(data_path, c, dsk) ==
    LET primary == dsk[data_path].exists /\ dsk[data_path].rows # <<>>
        sample == dsk["sample"].exists /\ dsk["sample"].rows # <<>>
        body == load_relievers_body(data_path, dsk)
    IN  IF CacheHit(c, data_path)
        THEN [path |-> data_path, hit |-> TRUE, ok |-> TRUE,
              pool |-> c[1].value, src |-> "cache", primary |-> primary,
              sample |-> sample]
        ELSE [path |-> data_path, hit |-> FALSE, ok |-> body.ok,
              pool |-> body.pool, src |-> body.src, primary |-> primary,
              sample |-> sample]

\* Cap of the reads counter: the model saturates it there.
ReadsCap == 2

\* A run of the body that returned a pool is one read of the path.
CountRead(r, call) ==
    IF call.hit \/ ~call.ok THEN r
    ELSE [r EXCEPT ![call.path] = Min2(ReadsCap, @ + 1)]

\* A node that returns only the keys it has set.
LoadReturnFresh(relievers, ns) ==
    /\ state' = With(With(NoState, "relievers", relievers), "notes", ns)
    /\ pc' = NextNode("load_data")

\* A node returns  {**state, "relievers": relievers, "notes": notes}  and the
\* graph moves on along its edge.
LoadReturn(relievers, ns) ==
    /\ state' = With(With(state, "relievers", relievers), "notes", ns)
    /\ pc' = NextNode("load_data")

\* _load_relievers_node, lines 32-36: the first load_relievers call.
LoadData ==
    /\ pc = "load_data"
    /\ LET call == LoadCall("data", cache, disk)
           ns == Get(state, "notes", <<>>)
       IN  /\ hist' = [hist EXCEPT !.nodes = Append(@, "load_data"),
                                   !.loads = @ + 1]
           /\ notes' = ns
           /\ IF call.hit
              THEN LoadReturn(call.pool, ns) /\ pending' = pending
              ELSE IF call.ok
                   THEN /\ pending' = <<call.pool>>
                        /\ pc' = "load_data:store"
                        /\ state' = state
                   ELSE /\ pc' = "load_data:fetch"
                        /\ UNCHANGED <<state, pending>>
    /\ UNCHANGED <<disk, cache, key, fcall, frame, err, rpc, rframe, last, reads>>

\* lru_cache stores the pool the body returned; the node returns.
LoadStore ==
    /\ pc = "load_data:store"
    /\ cache' = CacheStore(cache, "data", pending[1])
    /\ pending' = <<>>
    /\ LoadReturn(pending[1], notes)
    /\ UNCHANGED <<disk, key, fcall, notes, frame, err, rpc, rframe, hist, last, reads>>

\* The except branch that notes a StatcastError and goes on to the second
\* load instead of re-raising.
LoadRefreshFetchSwallow ==
    /\ pc = "load_data:fetch"
    /\ \/ \E f \in Frames :
             /\ frame' = f
             /\ hist' = [hist EXCEPT !.refreshes = @ + 1, !.fetch = "frame"]
             /\ pc' = "load_data:open"
             /\ UNCHANGED <<notes, err>>
       \/ /\ hist' = [hist EXCEPT !.refreshes = @ + 1,
                                   !.fetch = "StatcastError"]
          /\ notes' = Append(notes, Note("Statcast refresh failed", 0))
          /\ pc' = "load_data:retry"
          /\ UNCHANGED <<err, frame>>
    /\ UNCHANGED <<disk, cache, key, fcall, state, pending, rpc, rframe, last, reads>>

\* refresh_relievers_csv, line 58 (fetch_reliever_frame) inside the node's
\* except branch: a frame, or a StatcastError (noted, line 44, and re-raised).
LoadRefreshFetch ==
    /\ pc = "load_data:fetch"
    /\ \/ \E f \in Frames :
             /\ frame' = f
             /\ hist' = [hist EXCEPT !.refreshes = @ + 1, !.fetch = "frame"]
             /\ pc' = "load_data:open"
             /\ UNCHANGED <<notes, err>>
       \/ /\ hist' = [hist EXCEPT !.refreshes = @ + 1,
                                   !.fetch = "StatcastError"]
          /\ notes' = Append(notes, Note("Statcast refresh failed", 0))
          /\ pc' = "raised"
          /\ err' = "StatcastError"
          /\ frame' = frame
    /\ UNCHANGED <<disk, cache, key, fcall, state, pending, rpc, rframe, last, reads>>

\* write_relievers_csv: to_csv opens the output file for writing, which
\* creates or truncates it ...
LoadRefreshOpen ==
    /\ pc = "load_data:open"
    /\ disk' = [disk EXCEPT !["data"] = File(<<>>)]
    /\ pc' = "load_data:write"
    /\ UNCHANGED <<cache, key, fcall, state, notes, pending, frame, err, rpc, rframe,
                   hist, last, reads>>

\* ... and writes the frame's rows.
LoadRefreshWrite ==
    /\ pc = "load_data:write"
    /\ disk' = [disk EXCEPT !["data"] = File(frame)]
    /\ hist' = [hist EXCEPT !.written = frame]
    /\ pc' = "load_data:clear"
    /\ UNCHANGED <<cache, key, fcall, state, notes, pending, frame, err, rpc, rframe,
                   last, reads>>

\* refresh_relievers_csv, lines 62-63: cache_clear, return len(frame); the
\* node appends its note (lines 39-41).
LoadRefreshClear ==
    /\ pc = "load_data:clear"
    /\ cache' = CacheClear(cache)
    /\ notes' = Append(notes, Note("Auto-refreshed reliever CSV", Len(frame)))
    /\ pc' = "load_data:retry"
    /\ UNCHANGED <<disk, key, fcall, state, pending, frame, err, rpc, rframe, hist,
                   last, reads>>

\* The second load wrapped in a loop: a DataLoadError sends it back to the
\* refresh.
LoadRetryAgain ==
    /\ pc = "load_data:retry"
    /\ LET call == LoadCall("data", cache, disk)
       IN  /\ hist' = [hist EXCEPT !.loads = @ + 1]
           /\ IF call.hit
              THEN LoadReturn(call.pool, notes) /\ UNCHANGED <<pending, err>>
              ELSE IF call.ok
                   THEN /\ pending' = <<call.pool>>
                        /\ pc' = "load_data:store"
                        /\ UNCHANGED <<state, err>>
                   ELSE /\ pc' = "load_data:fetch"
                        /\ UNCHANGED <<state, pending, err>>
    /\ UNCHANGED <<disk, cache, key, fcall, notes, frame, rpc, rframe, last, reads>>

\* _load_relievers_node, line 42: the second load_relievers call; its
\* DataLoadError is not caught by  except StatcastError.
LoadRetry ==
    /\ pc = "load_data:retry"
    /\ LET call == LoadCall("data", cache, disk)
       IN  /\ hist' = [hist EXCEPT !.loads = @ + 1]
           /\ IF call.hit
              THEN LoadReturn(call.pool, notes) /\ UNCHANGED <<pending, err>>
              ELSE IF call.ok
                   THEN /\ pending' = <<call.pool>>
                        /\ pc' = "load_data:store"
                        /\ UNCHANGED <<state, err>>
                   ELSE /\ pc' = "raised"
                        /\ err' = "DataLoadError"
                        /\ UNCHANGED <<state, pending>>
    /\ UNCHANGED <<disk, cache, key, fcall, notes, frame, rpc, rframe, last, reads>>

\* _scoring_node
Score ==
    /\ pc = "score"
    /\ hist' = [hist EXCEPT !.nodes = Append(@, "score")]
    /\ LET relievers == Get(state, "relievers", <<>>)
           request == state.request
       IN  IF relievers = <<>> \/ "request" \notin state.keys
           THEN /\ pc' = "raised"
                /\ err' = "ValueError"
                /\ state' = state
           ELSE /\ state' = With(state, "scored",
                      rank_relievers(relievers, request.batter,
                                     request.leverage, request.exclude)[2])
                /\ pc' = NextNode("score")
                /\ err' = err
    /\ UNCHANGED <<disk, cache, key, fcall, notes, pending, frame, rpc, rframe, last,
                   reads>>

\* Only the first scored pair.
Top1(scored) == SubSeq(scored, 1, Min2(1, Len(scored)))

\* The  top3  argument built from  scored[:3].
Top3(scored) == SubSeq(scored, 1, Min2(3, Len(scored)))

\* An explanation node that, once the chat API has answered, keeps only the
\* top pair of the ranking.
ExplainKeepsTop ==
    /\ pc = "explain"
    /\ LET ns == Get(state, "notes", <<>>)
           scored == Get(state, "scored", <<>>)
           nodes == Append(hist.nodes, "explain")
       IN  IF scored = <<>>
           THEN /\ state' = With(state, "notes",
                      Append(ns, Note("No scored relievers available", 0)))
                /\ pc' = NextNode("explain")
                /\ hist' = [hist EXCEPT !.nodes = nodes]
                /\ err' = err
           ELSE IF ~key
           THEN /\ state' = With(state, "notes",
                      Append(ns, Note("LLM explanation skipped", 0)))
                /\ pc' = NextNode("explain")
                /\ hist' = [hist EXCEPT !.nodes = nodes]
                /\ err' = err
           ELSE /\ hist' = [hist EXCEPT
                      !.nodes = nodes,
                      !.llm = Append(@, [context |-> state.request,
                                         top3 |-> Top3(scored)])]
                /\ \/ \E m \in LlmMessages :
                        /\ state' = With(With(With(state, "explanation",
                                                   explanation_of(m)),
                                              "notes", ns),
                                         "scored", SubSeq(scored, 1, 1))
                        /\ pc' = NextNode("explain")
                        /\ err' = err
                   \/ /\ pc' = "raised"
                      /\ err' = "LLMError"
                      /\ state' = state
    /\ UNCHANGED <<disk, cache, key, fcall, notes, pending, frame, rpc, rframe, last,
                   reads>>

\* _explanation_node; generate_explanation's call of the chat API either
\* yields a message or raises, and nothing on the way catches that.
Explain ==
    /\ pc = "explain"
    /\ LET ns == Get(state, "notes", <<>>)
           scored == Get(state, "scored", <<>>)
           nodes == Append(hist.nodes, "explain")
       IN  IF scored = <<>>
           THEN /\ state' = With(state, "notes",
                      Append(ns, Note("No scored relievers available", 0)))
                /\ pc' = NextNode("explain")
                /\ hist' = [hist EXCEPT !.nodes = nodes]
                /\ err' = err
           ELSE IF ~key
           THEN /\ state' = With(state, "notes",
                      Append(ns, Note("LLM explanation skipped", 0)))
                /\ pc' = NextNode("explain")
                /\ hist' = [hist EXCEPT !.nodes = nodes]
                /\ err' = err
           ELSE /\ hist' = [hist EXCEPT
                      !.nodes = nodes,
                      !.llm = Append(@, [context |-> state.request,
                                         top3 |-> Top3(scored)])]
                /\ \/ \E m \in LlmMessages :
                        /\ state' = With(With(state, "explanation",
                                              explanation_of(m)), "notes", ns)
                        /\ pc' = NextNode("explain")
                        /\ err' = err
                   \/ /\ pc' = "raised"
                      /\ err' = "LLMError"
                      /\ state' = state
    /\ UNCHANGED <<disk, cache, key, fcall, notes, pending, frame, rpc, rframe, last,
                   reads>>

\* A critic that reads  scored[0]  before it looks whether  scored  is empty.
CriticUnguarded ==
    /\ pc = "critic"
    /\ hist' = [hist EXCEPT !.nodes = Append(@, "critic")]
    /\ LET ns == Get(state, "notes", <<>>)
           scored == Get(state, "scored", <<>>)
           explanation == Get(state, "explanation", None)
           note ==
               IF explanation # None /\ explanation[1] # <<>>
               THEN IF ~Contains(Lower(explanation[1]), Lower(scored[1][1].name))
                    THEN Note("Critic: explanation omitted the top candidate's name", 0)
                    ELSE Note("Critic: explanation references the top candidate", 0)
               ELSE Note("Critic: no explanation generated", 0)
       IN  IF scored = <<>>
           THEN pc' = "raised" /\ err' = "IndexError" /\ state' = state
           ELSE /\ state' = With(state, "notes", Append(ns, note))
                /\ pc' = NextNode("critic")
                /\ err' = err
    /\ UNCHANGED <<disk, cache, key, fcall, notes, pending, frame, rpc, rframe,
                   last, reads>>

\* A critic that tests  explanation is not None  where the code tests the
\* truth of the string.
CriticIsNotNone ==
    /\ pc = "critic"
    /\ hist' = [hist EXCEPT !.nodes = Append(@, "critic")]
    /\ LET ns == Get(state, "notes", <<>>)
           scored == Get(state, "scored", <<>>)
           explanation == Get(state, "explanation", None)
           note ==
               IF scored = <<>>
               THEN Note("No relievers scored; nothing to critique", 0)
               ELSE IF explanation # None
               THEN IF ~Contains(Lower(explanation[1]), Lower(scored[1][1].name))
                    THEN Note("Critic: explanation omitted the top candidate's name", 0)
                    ELSE Note("Critic: explanation references the top candidate", 0)
               ELSE Note("Critic: no explanation generated", 0)
       IN  state' = With(state, "notes", Append(ns, note))
    /\ pc' = NextNode("critic")
    /\ UNCHANGED <<disk, cache, key, fcall, notes, pending, frame, err, rpc, rframe,
                   last, reads>>

\* A critic that drops an explanation it finds wanting.
CriticDropsExplanation ==
    /\ pc = "critic"
    /\ hist' = [hist EXCEPT !.nodes = Append(@, "critic")]
    /\ LET ns == Get(state, "notes", <<>>)
           scored == Get(state, "scored", <<>>)
           explanation == Get(state, "explanation", None)
           omitted ==
               /\ scored # <<>>
               /\ explanation # None /\ explanation[1] # <<>>
               /\ ~Contains(Lower(explanation[1]), Lower(scored[1][1].name))
           note ==
               IF scored = <<>>
               THEN Note("No relievers scored; nothing to critique", 0)
               ELSE IF explanation # None /\ explanation[1] # <<>>
               THEN IF omitted
                    THEN Note("Critic: explanation omitted the top candidate's name", 0)
                    ELSE Note("Critic: explanation references the top candidate", 0)
               ELSE Note("Critic: no explanation generated", 0)
       IN  state' = With(IF omitted THEN With(state, "explanation", None)
                         ELSE state,
                         "notes", Append(ns, note))
    /\ pc' = NextNode("critic")
    /\ UNCHANGED <<disk, cache, key, fcall, notes, pending, frame, err, rpc, rframe,
                   last, reads>>

\* _critic_node
Critic ==
    /\ pc = "critic"
    /\ hist' = [hist EXCEPT !.nodes = Append(@, "critic")]
    /\ LET ns == Get(state, "notes", <<>>)
           scored == Get(state, "scored", <<>>)
           explanation == Get(state, "explanation", None)
           note ==
               IF scored = <<>>
               THEN Note("No relievers scored; nothing to critique", 0)
               ELSE IF explanation # None /\ explanation[1] # <<>>
               THEN IF ~Contains(Lower(explanation[1]), Lower(scored[1][1].name))
                    THEN Note("Critic: explanation omitted the top candidate's name", 0)
                    ELSE Note("Critic: explanation references the top candidate", 0)
               ELSE Note("Critic: no explanation generated", 0)
       IN  state' = With(state, "notes", Append(ns, note))
    /\ pc' = NextNode("critic")
    /\ UNCHANGED <<disk, cache, key, fcall, notes, pending, frame, err, rpc, rframe,
                   last, reads>>

(* ------------------------- /refresh-data request ---------------------- *)

\* refresh_data up to fetch_reliever_frame's return: a frame, or a
\* StatcastError, which is answered 502 and changes nothing.
RefreshDataFetch ==
    /\ rpc = "idle"
    /\ \/ \E f \in Frames : rframe' = f /\ rpc' = "open"
       \/ UNCHANGED <<rframe, rpc>>
    /\ UNCHANGED <<disk, cache, key, fcall, pc, state, notes, pending, frame, err,
                   hist, last, reads>>

\* A refresh that clears the cache before it fetches, and then fails.
RefreshDataFailCleared ==
    /\ rpc = "idle"
    /\ rpc' = "failed"
    /\ cache' = CacheClear(cache)
    /\ UNCHANGED <<disk, key, fcall, pc, state, notes, pending, frame, err, rframe,
                   hist, last, reads>>

\* refresh_relievers_csv, line 58, raising: fetch_reliever_frame's
\* StatcastError leaves the function before the write and the cache_clear,
\* and refresh_data's except branch has it.
RefreshDataFail ==
    /\ rpc = "idle"
    /\ rpc' = "failed"
    /\ UNCHANGED <<disk, cache, key, fcall, pc, state, notes, pending, frame, err,
                   rframe, hist, last, reads>>

\* refresh_data answers the failed request with status 502.
RefreshDataAnswer ==
    /\ rpc = "failed"
    /\ rpc' = "idle"
    /\ UNCHANGED <<disk, cache, key, fcall, pc, state, notes, pending, frame, err,
                   rframe, hist, last, reads>>

RefreshDataOpen ==
    /\ rpc = "open"
    /\ disk' = [disk EXCEPT !["data"] = File(<<>>)]
    /\ rpc' = "write"
    /\ UNCHANGED <<cache, key, fcall, pc, state, notes, pending, frame, err, rframe,
                   hist, last, reads>>

RefreshDataWrite ==
    /\ rpc = "write"
    /\ disk' = [disk EXCEPT !["data"] = File(rframe)]
    /\ rpc' = "clear"
    /\ UNCHANGED <<cache, key, fcall, pc, state, notes, pending, frame, err, rframe,
                   hist, last, reads>>

RefreshDataClear ==
    /\ rpc = "clear"
    /\ cache' = CacheClear(cache)
    /\ reads' = [p \in Paths |-> 0]
    /\ rpc' = "idle"
    /\ rframe' = <<>>
    /\ UNCHANGED <<disk, key, fcall, pc, state, notes, pending, frame, err, hist,
                   last>>

(* ------------------------------ environment --------------------------- *)

\* A direct call load_relievers(p), lookup to store.
LoadPoolCall(p) ==
    /\ LET call == LoadCall(p, cache, disk)
       IN  /\ last' = call
           /\ reads' = CountRead(reads, call)
           /\ cache' = IF call.hit \/ ~call.ok THEN cache
                       ELSE CacheStore(cache, p, call.pool)
    /\ UNCHANGED <<disk, key, fcall, pc, state, notes, pending, frame, err, rpc,
                   rframe, hist>>

\* Something outside the process replaces or removes a file.
EnvDisk(p, f) ==
    /\ disk[p] # f
    /\ p = "sample" => f \in SampleFiles
    /\ disk' = [disk EXCEPT ![p] = f]
    /\ UNCHANGED <<cache, key, fcall, pc, state, notes, pending, frame, err, rpc,
                   rframe, hist, last, reads>>

(* ------------------- direct calls of the ranker ----------------------- *)

\* Longest pool handed to rank_relievers.
MaxPool == 4

\* The Reliever objects a pool is made of.
RankCatalog == {from_row(r) : r \in {RowAb, RowBa, RowAa, RowAbPad, RowBb}}

\* Pools of distinct relievers, in any order.
RankPools ==
    UNION {{p \in [1..n -> RankCatalog] :
              \A i, j \in 1..n : i # j => p[i] # p[j]} : n \in 0..MaxPool}

\* The  exclude  arguments.
ExcludeLists ==
    {<<>>,
     <<<<" ", "a", "B", " ">>>>,
     <<<<"A", "b", " ">>>>,
     <<<<"b">>>>,
     <<<<"B", "B">>>>,
     <<<<"A", "b">>, <<"b", "a">>, <<"a", "a">>>>}

RankArgs ==
    [relievers : RankPools, batter : {"L", "R"},
     leverage : {"low", "medium", "high"}, exclude : ExcludeLists]

\* No workflow invocation, no /refresh-data request, no load_relievers call.
NoService ==
    /\ disk = [p \in Paths |-> Absent]
    /\ cache = <<>>
    /\ key = FALSE
    /\ pc = "idle"
    /\ state = NoState
    /\ notes = <<>>
    /\ pending = <<>>
    /\ frame = <<>>
    /\ err = "none"
    /\ rpc = "idle"
    /\ rframe = <<>>
    /\ hist = NoHist
    /\ last = NoLoad
    /\ reads = [p \in Paths |-> 0]

InitRank ==
    /\ NoService
    /\ \E a \in RankArgs :
          fcall = [op |-> "rank_relievers", args |-> a, done |-> FALSE,
                   out |-> <<>>]

\* rank_relievers(relievers, batter, leverage, exclude) returns.
RankCall ==
    /\ fcall.op = "rank_relievers"
    /\ ~fcall.done
    /\ fcall' = [fcall EXCEPT
          !.done = TRUE,
          !.out = rank_relievers(fcall.args.relievers, fcall.args.batter,
                                 fcall.args.leverage, fcall.args.exclude)]
    /\ UNCHANGED <<disk, cache, key, pc, state, notes, pending, frame, err, rpc,
                   rframe, hist, last, reads>>

(* ------------------ nodes applied to any state ------------------------ *)

\* Pools a RecommendationState can carry under  relievers.
StagePools ==
    {<<>>, <<from_row(RowAb)>>, <<from_row(RowBa), from_row(RowAb)>>}

\* Lists of (Reliever, score) pairs it can carry under  scored.
StageScored ==
    {rank_relievers(p, "L", "medium", <<>>)[2] : p \in StagePools}

\* The RecommendationState values (total=False: any key may be missing) the
\* node functions are applied to.  A missing key carries NoState's value.
StageStates ==
    {st \in [keys : SUBSET {"request", "relievers", "scored", "explanation",
                            "notes"},
             request : Contexts \cup {NoState.request},
             relievers : StagePools,
             scored : StageScored,
             explanation : {None, Some(<<>>), Some(<<"a", "B">>),
                            Some(<<"b", "b">>)},
             notes : {<<>>, <<Note("earlier", 0)>>}] :
        /\ ("request" \in st.keys) = (st.request \in Contexts)
        /\ "relievers" \notin st.keys => st.relievers = NoState.relievers
        /\ "scored" \notin st.keys => st.scored = NoState.scored
        /\ "explanation" \notin st.keys => st.explanation = NoState.explanation
        /\ "notes" \notin st.keys => st.notes = NoState.notes}

\* A state is handed to _scoring_node, _explanation_node or _critic_node.
InitStage ==
    /\ disk = [p \in Paths |-> Absent]
    /\ cache = <<>>
    /\ key \in BOOLEAN
    /\ pc \in {"score", "explain", "critic"}
    /\ state \in StageStates
    /\ notes = <<>>
    /\ pending = <<>>
    /\ frame = <<>>
    /\ err = "none"
    /\ rpc = "idle"
    /\ rframe = <<>>
    /\ hist = NoHist
    /\ last = NoLoad
    /\ reads = [p \in Paths |-> 0]
    /\ fcall = NoCall

(* ------------------- direct calls of the scorer ----------------------- *)

\* Statistics a Reliever can carry, the pathological ones included: era and
\* whip in hundredths, (k9, bb9) in tenths, (vsL, vsR) wOBA in thousandths.
EraValues == {0 - 100, 0, 175, 350, 700, 10500}

WhipValues == {0 - 50, 0, 130, 260, 3900}

K9Bb9Values == {<<0, 60>>, <<90, 30>>, <<120, 20>>, <<150, 0>>}

WobaValues ==
    {<<0 - 100, 600>>, <<0, 450>>, <<300, 225>>, <<450, 0>>, <<600, 300>>}

RestValues == {0 - 1, 0, 1, 2}

ScoreRelievers ==
    {[name |-> <<"A", "b">>, throws |-> <<"L">>, era |-> e, whip |-> w,
      k9 |-> kb[1], bb9 |-> kb[2], vsL |-> wo[1], vsR |-> wo[2],
      days_rest |-> d] :
        e \in EraValues, w \in WhipValues, kb \in K9Bb9Values,
        wo \in WobaValues, d \in RestValues}
      \cup RankCatalog

ScoreArgs ==
    [reliever : ScoreRelievers, batter : {"L", "R"},
     leverage : {"low", "medium", "high"}]

InitScore ==
    /\ NoService
    /\ \E a \in ScoreArgs :
          fcall = [op |-> "score_reliever", args |-> a, done |-> FALSE,
                   out |-> <<>>]

\* score_reliever(reliever, batter, leverage) returns.
ScoreCall ==
    /\ fcall.op = "score_reliever"
    /\ ~fcall.done
    /\ fcall' = [fcall EXCEPT
          !.done = TRUE,
          !.out = score_reliever(fcall.args.reliever, fcall.args.batter,
                                 fcall.args.leverage)]
    /\ UNCHANGED <<disk, cache, key, pc, state, notes, pending, frame, err, rpc,
                   rframe, hist, last, reads>>

(* ---------------------------- specification --------------------------- *)

RunQuiet == pc = "idle"

RefreshQuiet == rpc = "idle"

\* One thread: a workflow invocation or a /refresh-data request runs to its
\* end before the next begins, and the files change only in between.
Next ==
    \/ \E c \in Contexts : RefreshQuiet /\ Invoke(c)
    \/ LoadData
    \/ LoadStore
    \/ LoadRefreshFetch
    \/ LoadRefreshOpen
    \/ LoadRefreshWrite
    \/ LoadRefreshClear
    \/ LoadRetry
    \/ Score
    \/ Explain
    \/ Critic
    \/ Return
    \/ RunQuiet /\ RefreshDataFetch
    \/ RefreshDataOpen
    \/ RefreshDataWrite
    \/ RefreshDataClear
    \/ \E p \in Paths, f \in Files : RunQuiet /\ RefreshQuiet /\ EnvDisk(p, f)

Spec == Init /\ [][Next]_vars

\* The data provider alone: direct load_relievers calls on any path,
\* /refresh-data requests and file changes, one after the other.
NextData ==
    \/ \E p \in Paths : RefreshQuiet /\ LoadPoolCall(p)
    \/ RefreshDataFetch
    \/ RefreshDataOpen
    \/ RefreshDataWrite
    \/ RefreshDataClear
    \/ \E p \in Paths, f \in Files : RefreshQuiet /\ EnvDisk(p, f)

SpecData == Init /\ [][NextData]_vars

\* /refresh-data requests, failing ones made visible, with
\* load_relievers(settings.data_path) calls and file changes in between.
NextRefresh ==
    \/ RefreshQuiet /\ LoadPoolCall("data")
    \/ RefreshDataFail
    \/ RefreshDataAnswer
    \/ RefreshDataFetch
    \/ RefreshDataOpen
    \/ RefreshDataWrite
    \/ RefreshDataClear
    \/ \E p \in Paths, f \in Files : RefreshQuiet /\ EnvDisk(p, f)

SpecRefresh == Init /\ [][NextRefresh]_vars

\* The service's thread pool: a workflow invocation and a /refresh-data
\* request interleave step by step.
NextConc ==
    \/ \E c \in Contexts : Invoke(c)
    \/ LoadData
    \/ LoadStore
    \/ LoadRefreshFetch
    \/ LoadRefreshOpen
    \/ LoadRefreshWrite
    \/ LoadRefreshClear
    \/ LoadRetry
    \/ Score
    \/ Explain
    \/ Critic
    \/ Return
    \/ RefreshDataFetch
    \/ RefreshDataOpen
    \/ RefreshDataWrite
    \/ RefreshDataClear
    \/ \E p \in Paths, f \in Files : RunQuiet /\ RefreshQuiet /\ EnvDisk(p, f)

SpecConc == Init /\ [][NextConc]_vars

\* The thread pool with nothing outside the process touching the files: only
\* refreshes change the primary file.
NextRace ==
    \/ \E c \in Contexts : Invoke(c)
    \/ LoadData
    \/ LoadStore
    \/ LoadRefreshFetch
    \/ LoadRefreshOpen
    \/ LoadRefreshWrite
    \/ LoadRefreshClear
    \/ LoadRetry
    \/ Score
    \/ Explain
    \/ Critic
    \/ Return
    \/ RefreshDataFetch
    \/ RefreshDataOpen
    \/ RefreshDataWrite
    \/ RefreshDataClear

SpecRace == Init /\ [][NextRace]_vars

\* The nodes after load_data, entered with any state.
NextStage ==
    \/ Score
    \/ Explain
    \/ Critic

SpecStage == InitStage /\ [][NextStage]_vars

\* rank_relievers called on its own.
NextRank == RankCall

SpecRank == InitRank /\ [][NextRank]_vars

\* score_reliever called on its own.
NextScore == ScoreCall

SpecScore == InitScore /\ [][NextScore]_vars

(* ------------------------------- claims ------------------------------- *)

StageOrder == <<"load_data", "score", "explain", "critic">>

\* C1: in every run the nodes execute in the order load_data, score,
\* explain, critic: the nodes run so far are a prefix of that order (none
\* twice, none out of turn), the node about to run is the successor of the
\* last one run, and the run ends only after all four.
C1_StageOrder ==
    /\ Len(hist.nodes) <= 4
    /\ hist.nodes = SubSeq(StageOrder, 1, Len(hist.nodes))
    /\ pc \in {"load_data", "score", "explain", "critic"}
          => pc = StageOrder[Len(hist.nodes) + 1]
    /\ pc \in {"load_data:store", "load_data:fetch", "load_data:open",
                "load_data:write", "load_data:clear", "load_data:retry"}
          => hist.nodes = <<"load_data">>
    /\ pc = "END" => hist.nodes = StageOrder

C1_Witness == pc = "END" /\ hist.nodes = StageOrder

\* C2 (as claimed): run fails only with DataLoadError or StatcastError, and
\* only out of the load_data node.
C2_OnlyLoadErrors ==
    pc = "raised"
      => /\ err \in {"DataLoadError", "StatcastError"}
         /\ hist.nodes = <<"load_data">>

\* C3: a failed first load is followed by one refresh, the memo is empty when
\* the load is retried, and the load is retried once: at most one refresh
\* and two loads per run, a second load only after the refresh, and a
\* DataLoadError leaves the run after exactly two loads and one refresh,
\* from the load_data node.
C3_RetryOnce ==
    /\ hist.refreshes <= 1
    /\ hist.loads <= 2
    /\ hist.loads = 2 => hist.refreshes = 1 /\ hist.fetch = "frame"
    /\ pc \in {"load_data:open", "load_data:write", "load_data:clear",
                "load_data:retry"}
          => hist.loads = 1 /\ hist.refreshes = 1
    /\ pc = "load_data:retry" => cache = <<>>
    /\ (pc = "raised" /\ err = "DataLoadError")
          => /\ hist.loads = 2
             /\ hist.refreshes = 1
             /\ hist.nodes = <<"load_data">>

C3_Witness ==
    pc = "raised" /\ err = "DataLoadError" /\ hist.loads = 2
      /\ hist.refreshes = 1

\* C4: when the refresh raises StatcastError the run raises that error, after
\* one load and one refresh, and no node after load_data has run.
C4_RefreshFailurePropagates ==
    hist.fetch = "StatcastError"
      => /\ pc = "raised"
         /\ err = "StatcastError"
         /\ hist.loads = 1
         /\ hist.refreshes = 1
         /\ hist.nodes = <<"load_data">>

C4_Witness == hist.fetch = "StatcastError" /\ pc = "raised"

\* C5 (as claimed): once the load_data node has returned a pool the run
\* never raises, and the final state holds the request, the pool, the ranked
\* list and at least one note.
C5_TerminatesAfterLoad ==
    /\ "relievers" \in state.keys => pc # "raised"
    /\ pc = "END"
          => /\ {"request", "relievers", "scored", "notes"} \subseteq state.keys
             /\ state.notes # <<>>

\* C6 (as claimed): a load_relievers call returns a pool only when the file
\* at the given path itself holds a record, and raises otherwise.
C6_PrimaryOnly == last.path # "none" => (last.ok <=> last.primary)

\* C6 (amended): a call that misses the memo raises DataLoadError exactly
\* when neither the file at the path nor the sample file holds a record; it
\* returns the path's own pool when that file holds one and the sample pool
\* otherwise; a call that hits the memo returns without reading any file.
C6_PrimaryThenSample ==
    last.path # "none"
      => /\ last.hit => last.ok /\ last.src = "cache"
         /\ ~last.hit
               => /\ last.ok <=> (last.primary \/ last.sample)
                  /\ last.primary => last.src = last.path
                  /\ (~last.primary /\ last.sample) => last.src = "sample"
                  /\ last.ok => last.pool # <<>>

C6_Witness ==
    last.path = "data" /\ ~last.hit /\ ~last.primary /\ last.ok
      /\ last.src = "sample"

\* C7 (as claimed): between two invalidations each path is read at most
\* once.
C7_ReadOncePerPath == \A p \in Paths : reads[p] <= 1

\* C7 (amended): the memo is one slot keyed by path: a path is not read
\* while its pool is the memoized entry; the entry is emptied only by
\* refresh's cache_clear, and it changes only to the pool of a different
\* path that has just been read.
C7_SingleSlotMemo ==
    [][/\ \A p \in Paths :
            reads'[p] > reads[p] => ~(cache # <<>> /\ cache[1].key = p)
       /\ (cache # <<>> /\ cache' = <<>>) => rpc = "clear"
       /\ (cache' # <<>> /\ cache' # cache)
             => /\ cache # <<>> => cache'[1].key # cache[1].key
                /\ last'.path = cache'[1].key
                /\ ~last'.hit
                /\ cache'[1].value = last'.pool]_vars

C7_Witness ==
    /\ last.hit
    /\ reads[last.path] = 1
    /\ \E p \in Paths : p # last.path /\ reads[p] >= 1

\* C8: when the load_data node has refreshed, the pool it puts in the state
\* is the frame the refresh wrote, row for row: N rows written, N relievers.
C8_RecoveredPool ==
    (hist.refreshes = 1 /\ "relievers" \in state.keys)
      => /\ hist.written # <<>>
         /\ Len(state.relievers) = Len(hist.written)
         /\ state.relievers = hist.written

C8_Witness ==
    /\ hist.refreshes = 1
    /\ "relievers" \in state.keys
    /\ Len(state.relievers) = 2

\* C9 (as claimed): once the explanation collaborator has been called the
\* run does not raise.
C9_ExplanationNeverRaises == hist.llm # <<>> => pc # "raised"

\* C10: the explain node calls the collaborator exactly when the ranked list
\* is not empty and the key is set.  When it skips it appends one note, sets
\* no explanation and makes no call; when it calls, it passes the request
\* and the first three scored pairs in order, and on return stores the
\* result under "explanation" with the notes as they were.
C10_ExplainGate ==
    [][pc = "explain"
         => LET scored == Get(state, "scored", <<>>)
                calls == scored # <<>> /\ key
            IN  /\ hist'.llm # hist.llm <=> calls
                /\ ~calls
                     => /\ pc' = "critic"
                        /\ Len(state'.notes) = Len(state.notes) + 1
                        /\ SubSeq(state'.notes, 1, Len(state.notes))
                              = state.notes
                        /\ "explanation" \notin state'.keys
                /\ calls
                     => /\ hist'.llm =
                             <<[context |-> state.request,
                                top3 |-> [i \in 1..Min2(3, Len(scored))
                                            |-> scored[i]]]>>
                        /\ pc' = "critic"
                             => /\ "explanation" \in state'.keys
                                /\ state'.notes = state.notes]_vars

C10_Witness ==
    /\ pc = "critic"
    /\ Len(hist.llm) = 1
    /\ Len(hist.llm[1].top3) = 2
    /\ "explanation" \in state.keys
    /\ state.explanation = None


\* The explanation text mentions the name, letter case aside.
Mentions(text, name) ==
    \E i \in 0..(Len(text) - Len(name)) :
        \A j \in 1..Len(name) : LowerChar(text[i + j]) = LowerChar(name[j])

\* C11: for a non-empty ranking the critic appends exactly one note: the
\* explanation "references the top candidate" when a non-empty explanation
\* contains the top candidate's name in any letter case, "omitted the top
\* candidate's name" when a non-empty explanation does not, and "no
\* explanation generated" when there is no explanation.
C11_CriticNote ==
    [][(pc = "critic" /\ pc' = "END" /\ Get(state, "scored", <<>>) # <<>>) =>
        LET explanation == Get(state, "explanation", None)
            top_name == state.scored[1][1].name
            before == Get(state, "notes", <<>>)
            after == state'.notes
            expected ==
                IF explanation = None \/ explanation[1] = <<>>
                THEN "Critic: no explanation generated"
                ELSE IF Mentions(explanation[1], top_name)
                THEN "Critic: explanation references the top candidate"
                ELSE "Critic: explanation omitted the top candidate's name"
        IN  /\ "notes" \in state'.keys
            /\ Len(after) = Len(before) + 1
            /\ SubSeq(after, 1, Len(before)) = before
            /\ after[Len(after)].text = expected]_vars

\* The explanation names the top candidate in another letter case and the
\* critic has said that it references the candidate.
C11_Witness ==
    /\ pc = "END"
    /\ state.scored # <<>>
    /\ state.explanation = Some(<<"a", "B">>)
    /\ state.scored[1][1].name = <<"A", "b">>
    /\ state.notes[Len(state.notes)].text
         = "Critic: explanation references the top candidate"


IsPrefix(s, t) == Len(s) <= Len(t) /\ SubSeq(t, 1, Len(s)) = s

\* C12: a step of a run never removes a key of the state and never changes
\* the context, the pool or the ranked list once they are set; the notes
\* before the step are a prefix of the notes after it.
C12_FieldsKept ==
    [][pc' # "idle" =>
        /\ state.keys \subseteq state'.keys
        /\ \A k \in state.keys \cap {"request", "relievers", "scored"} :
               state'[k] = state[k]
        /\ "notes" \in state.keys => IsPrefix(state.notes, state'.notes)]_vars

\* A run that refreshed the file has ended with every field set and the
\* notes of two stages.
C12_Witness ==
    /\ pc = "END"
    /\ state.keys = {"request", "relievers", "scored", "explanation", "notes"}
    /\ state.request.exclude # <<>>
    /\ state.relievers # <<>>
    /\ Len(state.notes) >= 2


\* A name as the ranking contract compares it: trimmed, letter case aside.
Normal(name) == Lower(Strip(name))

Ranked == fcall.op = "rank_relievers" /\ fcall.done

\* C13: no candidate whose name matches an exclusion entry, both trimmed
\* and compared without regard to letter case, is in either returned list.
C13_ExcludedNeverRanked ==
    Ranked =>
        \A j \in 1..Len(fcall.args.exclude) :
            /\ \A i \in 1..Len(fcall.out[1]) :
                   Normal(fcall.out[1][i].name) # Normal(fcall.args.exclude[j])
            /\ \A i \in 1..Len(fcall.out[2]) :
                   Normal(fcall.out[2][i][1].name)
                     # Normal(fcall.args.exclude[j])


\* The pool without the candidates an exclusion entry names.
Without(pool, entry) ==
    SelectSeq(pool, LAMBDA r : Normal(r.name) # Normal(entry))

\* C14: ranking with one excluded name equals ranking, with no exclusion,
\* the pool from which the candidate of that name (trimmed, letter case
\* aside) is deleted; a name that matches nobody deletes nothing, so the
\* result is then that of excluding nothing.
C14_ExcludeIsDelete ==
    (Ranked /\ Len(fcall.args.exclude) = 1) =>
        fcall.out = rank_relievers(
                        Without(fcall.args.relievers, fcall.args.exclude[1]),
                        fcall.args.batter, fcall.args.leverage, <<>>)


\* Where a candidate stands in the pool (pools hold distinct candidates).
PoolIndex(r) ==
    CHOOSE k \in 1..Len(fcall.args.relievers) : fcall.args.relievers[k] = r

\* The pool positions of the candidates that no exclusion entry names and
\* that the call did not return.
LeftOut ==
    {k \in 1..Len(fcall.args.relievers) :
        /\ \A j \in 1..Len(fcall.args.exclude) :
               Normal(fcall.args.relievers[k].name)
                 # Normal(fcall.args.exclude[j])
        /\ \A i \in 1..Len(fcall.out[2]) :
               fcall.out[2][i][1] # fcall.args.relievers[k]}

ScoreAt(k) ==
    score_reliever(fcall.args.relievers[k], fcall.args.batter,
                   fcall.args.leverage)

\* C15: candidates of equal score keep their pool order: of two returned
\* pairs with the same score the one earlier in the pool comes first, and a
\* candidate left out by the cut with the score of a returned one stands
\* later in the pool.
C15_StableTies ==
    Ranked =>
        LET pairs == fcall.out[2]
        IN  /\ \A i, j \in 1..Len(pairs) :
                   (i < j /\ pairs[i][2] = pairs[j][2]) =>
                       PoolIndex(pairs[i][1]) < PoolIndex(pairs[j][1])
            /\ \A i \in 1..Len(pairs), k \in LeftOut :
                   ScoreAt(k) = pairs[i][2] => PoolIndex(pairs[i][1]) < k

\* Two returned candidates tie, and a third with the score of the last
\* returned one is cut.
C15_Witness ==
    /\ Ranked
    /\ Len(fcall.out[2]) = 3
    /\ fcall.out[2][1][2] = fcall.out[2][2][2]
    /\ \E k \in LeftOut : ScoreAt(k) = fcall.out[2][3][2]


\* The pool positions of the candidates that no exclusion entry names.
NonExcluded ==
    {k \in 1..Len(fcall.args.relievers) :
        \A j \in 1..Len(fcall.args.exclude) :
            Normal(fcall.args.relievers[k].name) # Normal(fcall.args.exclude[j])}

\* C16: the pair list has min(3, number of non-excluded candidates) pairs
\* in non-increasing order of score, no non-excluded candidate left out
\* scores higher than a returned one, every returned score is
\* score_reliever's value for its candidate, and the plain list holds the
\* candidates of the pair list in the same order.
C16_TopThree ==
    Ranked =>
        LET top == fcall.out[1]
            pairs == fcall.out[2]
        IN  /\ Len(pairs) = Min2(3, Cardinality(NonExcluded))
            /\ \A i \in 1..(Len(pairs) - 1) : pairs[i][2] >= pairs[i + 1][2]
            /\ \A k \in LeftOut, i \in 1..Len(pairs) : ScoreAt(k) <= pairs[i][2]
            /\ \A i \in 1..Len(pairs) :
                   pairs[i][2] = score_reliever(pairs[i][1], fcall.args.batter,
                                                fcall.args.leverage)
            /\ top = [i \in 1..Len(pairs) |-> pairs[i][1]]

\* C17: rank_relievers on an empty pool, or on a pool whose every candidate
\* is named by an exclusion entry, returns ([], []).
C17_EmptyRanking ==
    (Ranked /\ NonExcluded = {}) => fcall.out = <<<<>>, <<>>>>


\* The Load stage of the run has returned a pool.
Loaded ==
    pc \in {"score", "explain", "critic", "END", "raised"}
      /\ "relievers" \in state.keys

HasNote(text) == \E i \in 1..Len(state.notes) : state.notes[i].text = text

\* The run has not raised: it is at a stage, which runs whenever the run is
\* at it, or at the end.
Proceeds == pc \in {"score", "explain", "critic", "END"} /\ err = "none"

\* C18: after a successful Load, a run with an empty ranking, a run without
\* the credential, and a run whose explanation omits the top candidate's
\* name do not raise; each goes on to the final state, which holds a note
\* describing the condition.
C18_DegradesIntoNotes ==
    Loaded =>
        /\ ("scored" \in state.keys /\ state.scored = <<>>) =>
               /\ Proceeds
               /\ pc = "END" =>
                      /\ HasNote("No scored relievers available")
                      /\ HasNote("No relievers scored; nothing to critique")
        /\ ~key =>
               /\ Proceeds
               /\ (pc = "END" /\ state.scored # <<>>) =>
                      HasNote("LLM explanation skipped")
        /\ (/\ Get(state, "scored", <<>>) # <<>>
            /\ Get(state, "explanation", None) \notin {None, Some(<<>>)}
            /\ ~Mentions(state.explanation[1], state.scored[1][1].name)) =>
               /\ Proceeds
               /\ pc = "END" =>
                      HasNote("Critic: explanation omitted the top candidate's name")

\* A run whose exclusions name every candidate of the loaded pool has ended
\* with the notes of the explain and critic stages.
C18_Witness ==
    /\ pc = "END"
    /\ state.relievers # <<>>
    /\ "scored" \in state.keys
    /\ state.scored = <<>>
    /\ Len(state.notes) >= 2


Scored == fcall.op = "score_reliever" /\ fcall.done

\* The sum of the era, whip, kbb and platoon weights after the leverage
\* adjustment, in ten-thousandths.
WeightCap(leverage) == IF leverage = "high" THEN 10000 ELSE 9500

\* C19: the score is at most the sum of the leverage-adjusted era, whip,
\* kbb and platoon weights (0.95 at low and medium, 1.00 at high) and at
\* least -0.5 times the rest weight (-0.025).
C19_ScoreBounded ==
    Scored =>
        /\ fcall.out <= WeightCap(fcall.args.leverage)
        /\ fcall.out >= 0 - 250

\* A rested candidate with every term at its cap scores 1.00 at high
\* leverage.
C19_Witness ==
    /\ Scored
    /\ fcall.args.leverage = "high"
    /\ fcall.args.reliever.days_rest >= 1
    /\ fcall.out = WeightCap("high")


\* The weights of the stated formula after the leverage adjustment, in
\* hundredths.
FormulaWeights(leverage) ==
    CASE leverage = "low" ->
           [era |-> 30, whip |-> 25, kbb |-> 25, platoon |-> 15, rest |-> 5]
      [] leverage = "medium" ->
           [era |-> 30, whip |-> 25, kbb |-> 20, platoon |-> 20, rest |-> 5]
      [] leverage = "high" ->
           [era |-> 30, whip |-> 30, kbb |-> 15, platoon |-> 25, rest |-> 5]

\* clamp01(n/d) for d > 0, as a fraction in lowest terms.
Clamp01(n, d) ==
    LET c == IF n < 0 THEN 0 ELSE IF n > d THEN d ELSE n
    IN  [n |-> c \div GCD(d, c), d |-> d \div GCD(d, c)]

\* The four weighted terms of the stated formula for the call's arguments,
\* in ten-thousandths, each a fraction n/d.
FormulaTerms ==
    LET r == fcall.args.reliever
        wt == FormulaWeights(fcall.args.leverage)
        era == Clamp01(350, IF r.era > 1 THEN r.era ELSE 1)
        whip == Clamp01(130, IF r.whip > 1 THEN r.whip ELSE 1)
        kbb == Clamp01(r.k9 - r.bb9 + 50, 150)
        platoon == Clamp01(450 - (IF fcall.args.batter = "L" THEN r.vsL
                                  ELSE r.vsR), 450)
    IN  <<[n |-> wt.era * 100 * era.n, d |-> era.d],
          [n |-> wt.whip * 100 * whip.n, d |-> whip.d],
          [n |-> wt.kbb * 100 * kbb.n, d |-> kbb.d],
          [n |-> wt.platoon * 100 * platoon.n, d |-> platoon.d]>>

\* weights.rest * (0 if days_rest >= 1 else -0.5), in ten-thousandths.
FormulaRest ==
    IF fcall.args.reliever.days_rest >= 1 THEN 0
    ELSE 0 - 50 * FormulaWeights(fcall.args.leverage).rest

\* The stated sum is  FormulaWhole + FormulaFrac / FormulaDen.
FormulaDen ==
    FormulaTerms[1].d * FormulaTerms[2].d * FormulaTerms[3].d
      * FormulaTerms[4].d

FormulaWhole ==
    FormulaTerms[1].n \div FormulaTerms[1].d
      + FormulaTerms[2].n \div FormulaTerms[2].d
      + FormulaTerms[3].n \div FormulaTerms[3].d
      + FormulaTerms[4].n \div FormulaTerms[4].d + FormulaRest

FormulaFrac ==
    (FormulaTerms[1].n % FormulaTerms[1].d) * (FormulaDen \div FormulaTerms[1].d)
      + (FormulaTerms[2].n % FormulaTerms[2].d)
          * (FormulaDen \div FormulaTerms[2].d)
      + (FormulaTerms[3].n % FormulaTerms[3].d)
          * (FormulaDen \div FormulaTerms[3].d)
      + (FormulaTerms[4].n % FormulaTerms[4].d)
          * (FormulaDen \div FormulaTerms[4].d)

\* C20 as stated: for every candidate, zero or negative ERA and WHIP and
\* out-of-range wOBA included, score_reliever returns the weighted sum of
\* the clamped terms with the leverage-adjusted weights.
C20_WeightedSum ==
    Scored =>
        /\ fcall.out - FormulaWhole \in 0..4
        /\ (fcall.out - FormulaWhole) * FormulaDen = FormulaFrac

\* C20 amended: score_reliever returns that weighted sum rounded to 4
\* decimal places, the multiple of 0.0001 nearest to it.
C20_RoundedSum ==
    Scored =>
        /\ fcall.out - FormulaWhole \in 0..4
        /\ 2 * ((fcall.out - FormulaWhole) * FormulaDen - FormulaFrac)
              \in (0 - FormulaDen)..FormulaDen

\* A candidate with a negative ERA, a zero WHIP and a wOBA above 0.450
\* against the batter's side has been scored.
C20_Witness ==
    /\ Scored
    /\ fcall.args.reliever.era < 0
    /\ fcall.args.reliever.whip = 0
    /\ fcall.args.batter = "R"
    /\ fcall.args.reliever.vsR > 450
    /\ fcall.args.reliever.days_rest = 0
    /\ fcall.out = FormulaWhole


\* No load of the Load stage and no refresh is in flight.
LoadsAndRefreshesDone ==
    /\ pc \in {"idle", "score", "explain", "critic", "END", "raised"}
    /\ rpc = "idle"

\* C21: whatever the interleaving of invocations and refreshes, once no load
\* and no refresh is in flight the memoized pool, if there is one, is the
\* pool load_relievers derives from the files as they now are.
C21_MemoIsCurrent ==
    (LoadsAndRefreshesDone /\ cache # <<>>) =>
        cache[1].value = load_relievers_body(cache[1].key, disk).pool


\* C22: when the refresh fails during the Load stage's recovery, the state
\* the run ends with holds a note describing the refresh failure.
C22_FailureNoteKept ==
    (pc = "raised" /\ err = "StatcastError") =>
        \E i \in 1..Len(Get(state, "notes", <<>>)) :
            state.notes[i].text = "Statcast refresh failed"


\* The state holds no explanation: none was stored, or None or the empty
\* string was.
NoExplanation ==
    Get(state, "explanation", None) = None \/ state.explanation[1] = <<>>

LastNoteAfter == state'.notes[Len(state'.notes)].text

\* C23 as stated: whenever the state reaching the critic holds no
\* explanation, the note the critic appends is the deterministic-only one,
\* whatever the ranking, an empty one included.
C23_AlwaysDeterministicNote ==
    [][(pc = "critic" /\ NoExplanation) =>
          LastNoteAfter = "Critic: no explanation generated"]_vars

\* C23 amended: with no explanation and a non-empty ranking the critic
\* appends the deterministic-only note; with an empty ranking it appends
\* the note that no relievers were scored.
C23_NoExplanationNote ==
    [][(pc = "critic" /\ NoExplanation) =>
          LastNoteAfter =
              IF Get(state, "scored", <<>>) # <<>>
              THEN "Critic: no explanation generated"
              ELSE "No relievers scored; nothing to critique"]_vars

\* The explanation call returned blanks only, the ranking is not empty and
\* the critic has appended the deterministic-only note.
C23_Witness ==
    /\ pc = "END"
    /\ "explanation" \in state.keys
    /\ state.explanation = Some(<<>>)
    /\ state.scored # <<>>
    /\ state.notes[Len(state.notes)].text = "Critic: no explanation generated"


CriticNotes ==
    {"No relievers scored; nothing to critique",
     "Critic: explanation omitted the top candidate's name",
     "Critic: explanation references the top candidate",
     "Critic: no explanation generated"}

\* C24: the critic never raises and only appends: on every state it ends
\* the run without an error, the notes it leaves are the notes it found
\* followed by exactly one note of its own, which is therefore the last,
\* and request, relievers, scored and explanation, present or missing, are
\* as it found them.
C24_CriticOnlyAppends ==
    [][pc = "critic" =>
          LET before == Get(state, "notes", <<>>)
          IN  /\ pc' = "END"
              /\ err' = "none"
              /\ state'.keys = state.keys \cup {"notes"}
              /\ Len(state'.notes) = Len(before) + 1
              /\ SubSeq(state'.notes, 1, Len(before)) = before
              /\ LastNoteAfter \in CriticNotes
              /\ state'.request = state.request
              /\ state'.relievers = state.relievers
              /\ state'.scored = state.scored
              /\ state'.explanation = state.explanation]_vars

\* The critic alone has run on a state that had one note and an explanation
\* that does not name the top candidate; it has added its note after the
\* earlier one and kept the explanation.
C24_Witness ==
    /\ pc = "END"
    /\ hist.nodes = <<"critic">>
    /\ state.scored # <<>>
    /\ state.explanation = Some(<<"b", "b">>)
    /\ Len(state.notes) = 2
    /\ state.notes[1].text = "earlier"
    /\ state.notes[2].text = "Critic: explanation omitted the top candidate's name"

\* C25 as stated: the scoring node raises its ValueError, and stores no
\* ranking, exactly when relievers or request is missing from the state; a
\* state with both present, an empty pool included, is scored.
C25_ViolationIffAbsent ==
    [][pc = "score" =>
          IF "relievers" \notin state.keys \/ "request" \notin state.keys
          THEN pc' = "raised" /\ err' = "ValueError" /\ state' = state
          ELSE pc' = "explain" /\ err' = "none" /\ "scored" \in state'.keys]_vars


\* C26: with one thread, a refresh that returns has written at least one
\* row to the primary file and cleared the memo, so the second load reads
\* that file and succeeds; no run ends in DataLoadError, and a run that
\* fails in the load node after turning to the refresh fails with the
\* refresh's StatcastError.
C26_RecoveryLoads ==
    /\ err # "DataLoadError"
    /\ pc = "load_data:retry" =>
          /\ disk["data"] = File(frame)
          /\ disk["data"].rows # <<>>
          /\ cache = <<>>
          /\ LoadCall("data", cache, disk).ok
          /\ LoadCall("data", cache, disk).pool = load_from(<<"data">>, disk).pool
    /\ (pc = "raised" /\ hist.nodes = <<"load_data">>) =>
          /\ err = "StatcastError"
          /\ hist.fetch = "StatcastError"

\* The load node has recovered: the refresh wrote two rows and the node
\* returned the pool read back from them.
C26_Witness ==
    /\ pc = "score"
    /\ hist.refreshes = 1
    /\ Len(hist.written) = 2
    /\ hist.loads = 2
    /\ Len(state.relievers) = 2
    /\ state.relievers = load_from(<<"data">>, disk).pool


\* The pool the sample file holds.
SamplePool(dsk) == load_from(<<"sample">>, dsk)

\* The primary file is missing or without rows and the sample file has rows.
SampleOnly(dsk) ==
    /\ ~load_from(<<"data">>, dsk).ok
    /\ SamplePool(dsk).ok

\* C27: with the primary file missing or without rows and a sample file
\* with rows, the load node's call reads the sample pool, lru_cache stores
\* it under the primary path and the node returns it with no refresh and
\* no note; from then on the entry changes only by a refresh clearing it,
\* and every load that finds it returns its pool without reading a file.
C27_SamplePoolMemoized ==
    [][/\ (pc = "load_data" /\ cache = <<>> /\ SampleOnly(disk)) =>
             /\ pc' = "load_data:store"
             /\ pending' = <<SamplePool(disk).pool>>
             /\ notes' = <<>>
             /\ hist'.refreshes = 0
       /\ (pc = "load_data:store" /\ hist.refreshes = 0) =>
             /\ cache' = <<[key |-> "data", value |-> pending[1]]>>
             /\ pc' = "score"
             /\ state'.relievers = pending[1]
             /\ state'.notes = <<>>
             /\ hist'.refreshes = 0
       /\ (cache # <<>> /\ cache' # cache) =>
             /\ cache' = <<>>
             /\ pc = "load_data:clear" \/ rpc = "clear"
       /\ (pc = "load_data" /\ cache # <<>>) =>
             /\ pc' = "score"
             /\ state'.relievers = cache[1].value
             /\ state'.notes = <<>>
             /\ cache' = cache]_vars

\* A run has been served the memoized sample pool, with no refresh and no
\* note, although the primary file has meanwhile got rows of its own.
C27_Witness ==
    /\ pc = "score"
    /\ hist.refreshes = 0
    /\ state.notes = <<>>
    /\ cache = <<[key |-> "data", value |-> SamplePool(disk).pool]>>
    /\ state.relievers = SamplePool(disk).pool
    /\ Len(state.relievers) = 2
    /\ load_from(<<"data">>, disk).ok
    /\ load_from(<<"data">>, disk).pool # state.relievers


\* C28: a refresh whose fetch raises leaves the primary file and the cache
\* as they were, from the request's start to its answer, so that a
\* load_relievers call after it returns what a call before it would have;
\* the cache is emptied only by a refresh that has written its frame to the
\* primary file.
C28_FailedRefreshKeeps ==
    [][/\ ((rpc = "idle" /\ rpc' = "failed") \/ rpc = "failed") =>
             /\ disk' = disk
             /\ cache' = cache
             /\ LoadCall("data", cache', disk') = LoadCall("data", cache, disk)
       /\ (cache # <<>> /\ cache' = <<>>) =>
             /\ rpc = "clear"
             /\ rframe # <<>>
             /\ disk["data"] = File(rframe)]_vars

\* A refresh has failed while the cache held a pool that the primary file
\* no longer holds; the pool a load returns is still the memoized one.
C28_Witness ==
    /\ rpc = "failed"
    /\ cache # <<>>
    /\ last.ok
    /\ last.pool = cache[1].value
    /\ load_relievers_body("data", disk).pool # cache[1].value
    /\ LoadCall("data", cache, disk).pool = last.pool


\* rank_relievers applied to the pool and the request the state carries.
RankingOf(st) ==
    rank_relievers(st.relievers, st.request.batter, st.request.leverage,
                   st.request.exclude)[2]

\* C29: from the scoring node's return to the final state the ranked list
\* is rank_relievers of the loaded pool and the request, and the later
\* nodes leave pool, request and list alone: whether the key is set and
\* whatever the explanation call returns, equal pool and request give an
\* equal list.
C29_RankingFromPoolAndContext ==
    /\ pc \in {"explain", "critic", "END"} =>
          /\ {"request", "relievers", "scored"} \subseteq state.keys
          /\ state.scored = RankingOf(state)
    /\ (pc = "raised" /\ "scored" \in state.keys) =>
          state.scored = RankingOf(state)

\* A run with the key set has ended with an explanation and a ranking of
\* two.
C29_Witness ==
    /\ pc = "END"
    /\ key
    /\ state.explanation # None
    /\ state.explanation[1] # <<>>
    /\ Len(state.scored) = 2
    /\ state.scored = RankingOf(state)


\* C30: a load_relievers call that returns, from the files or from the
\* cache, returns at least one reliever, and run_multi_agent_recommendation
\* puts the caller's request into the initial state; so in a run, racing
\* refreshes or not, the scoring node finds a pool with a member and a
\* request, and its ValueError is never raised.
C30_ViolationUnreachable ==
    /\ err # "ValueError"
    /\ \A p \in Paths :
          LoadCall(p, cache, disk).ok => LoadCall(p, cache, disk).pool # <<>>
    /\ pending # <<>> => pending[1] # <<>>
    /\ pc \in {"score", "explain", "critic", "END"} =>
          /\ {"request", "relievers"} \subseteq state.keys
          /\ state.relievers # <<>>
          /\ state.request \in Contexts

\* The scoring node has run on a loaded pool of one and returned, every
\* member excluded or not.
C30_Witness ==
    /\ pc = "explain"
    /\ err = "none"
    /\ hist.nodes = <<"load_data", "score">>
    /\ Len(state.relievers) = 1
    /\ "scored" \in state.keys

=============================================================================
